---------------------------- MODULE Spec2Model ----------------------------
(***************************************************************************)
(* Model of src/src/services/user/user-lib.ts: the user record accessors   *)
(* getUser / updateUser over a MongoDB collection, and the token codec     *)
(* encodeToken / decodeToken.                                              *)
(*                                                                         *)
(* Strings are sequences of one-character strings, so that split,          *)
(* JSON.stringify, JSON.parse and base64 are computed character by         *)
(* character as the runtime computes them.                                 *)
(***************************************************************************)
EXTENDS Integers, Sequences, FiniteSets, TLC

VARIABLES
    token,      \* codec: the token string the caller currently holds
    minted,     \* codec: the encodeToken arguments the token descends from (history)
    edit,       \* codec: what was done to the token since it was minted (history)
    decoded,    \* codec: token, key and outcome of the last decodeToken call
    collection, \* store: the documents of the "user"/"info" collection, in natural order
    nextOid,    \* store: the next _id the store assigns on insert
    calls,      \* store: the in-flight getUser / updateUser calls, one per caller
    seed,       \* store: the collection's contents before the first call (history)
    lastSet,    \* store: per id, the userData of the latest completed updateOne (history)
    settled     \* store: the call that settled last, and how (history)

codecVars == <<token, minted, edit, decoded>>
storeVars == <<collection, nextOid, calls, seed, lastSet, settled>>
vars == <<token, minted, edit, decoded, collection, nextOid, calls, seed, lastSet, settled>>

(***************************************************************************)
(* Characters.  Printable ASCII, codes 32..126, in code order.             *)
(***************************************************************************)
Printable ==
  << " ", "!", "\"", "#", "$", "%", "&", "'", "(", ")", "*", "+", ",", "-", ".", "/",
     "0", "1", "2", "3", "4", "5", "6", "7", "8", "9", ":", ";", "<", "=", ">", "?",
     "@", "A", "B", "C", "D", "E", "F", "G", "H", "I", "J", "K", "L", "M", "N", "O",
     "P", "Q", "R", "S", "T", "U", "V", "W", "X", "Y", "Z", "[", "\\", "]", "^", "_",
     "GRAVE", "a", "b", "c", "d", "e", "f", "g", "h", "i", "j", "k", "l", "m", "n", "o",
     "p", "q", "r", "s", "t", "u", "v", "w", "x", "y", "z", "{", "|", "}", "~" >>

\* (code 96, the grave accent, is written "GRAVE": the one printable character
\* a string of this notation cannot hold)
PrintableSet == {Printable[i] : i \in 1..Len(Printable)}

\* The characters a decoded byte outside 32..126 turns into: the three JSON
\* whitespace control characters, any other control character, and U+FFFD
\* (what Buffer.toString() yields for a byte that is not valid UTF-8).
Tab == "\t"
Lf == "\n"
Cr == "\r"
Ctrl == "CTRL"
Replacement == "U+FFFD"

\* Buffer.from(str): the UTF-8 byte of a character (the model's strings are ASCII).
CodeOf == [c \in PrintableSet |-> 31 + (CHOOSE i \in 1..Len(Printable) : Printable[i] = c)]

CharCode(c) == CodeOf[c]

\* Buffer.toString(): the character of a byte.
ByteChar(b) ==
    IF b >= 32 /\ b <= 126 THEN Printable[b - 31]
    ELSE IF b = 9 THEN Tab
    ELSE IF b = 10 THEN Lf
    ELSE IF b = 13 THEN Cr
    ELSE IF b < 128 THEN Ctrl
    ELSE Replacement

Utf8Bytes(s) == [i \in 1..Len(s) |-> CharCode(s[i])]

Utf8String(bs) == [i \in 1..Len(bs) |-> ByteChar(bs[i])]

(***************************************************************************)
(* base64, as Buffer.toString("base64") and Buffer.from(s, "base64").      *)
(***************************************************************************)
B64 ==
  << "A", "B", "C", "D", "E", "F", "G", "H", "I", "J", "K", "L", "M", "N", "O", "P",
     "Q", "R", "S", "T", "U", "V", "W", "X", "Y", "Z", "a", "b", "c", "d", "e", "f",
     "g", "h", "i", "j", "k", "l", "m", "n", "o", "p", "q", "r", "s", "t", "u", "v",
     "w", "x", "y", "z", "0", "1", "2", "3", "4", "5", "6", "7", "8", "9", "+", "/" >>

B64Set == {B64[i] : i \in 1..Len(B64)}

Pad == "="

RECURSIVE Base64Encode(_)
Base64Encode(bs) ==
    IF Len(bs) = 0 THEN << >>
    ELSE IF Len(bs) = 1 THEN
        << B64[(bs[1] \div 4) + 1], B64[((bs[1] % 4) * 16) + 1], Pad, Pad >>
    ELSE IF Len(bs) = 2 THEN
        << B64[(bs[1] \div 4) + 1],
           B64[((bs[1] % 4) * 16) + (bs[2] \div 16) + 1],
           B64[((bs[2] % 16) * 4) + 1], Pad >>
    ELSE
        << B64[(bs[1] \div 4) + 1],
           B64[((bs[1] % 4) * 16) + (bs[2] \div 16) + 1],
           B64[((bs[2] % 16) * 4) + (bs[3] \div 64) + 1],
           B64[(bs[3] % 64) + 1] >>
        \o Base64Encode(SubSeq(bs, 4, Len(bs)))

\* The decoder's value of a character: the standard alphabet, and the URL-safe
\* "-" and "_" which the decoder also accepts; -1 for any other character.
ValueOf == [c \in B64Set |-> (CHOOSE i \in 1..Len(B64) : B64[i] = c) - 1]

Unbase64(c) ==
    IF c \in B64Set THEN ValueOf[c]
    ELSE IF c = "-" THEN 62
    ELSE IF c = "_" THEN 63
    ELSE 0 - 1

\* The decoder skips characters outside the alphabet and stops at the first "=".
Sextets(s) ==
    LET pads == {i \in 1..Len(s) : s[i] = Pad}
        upTo == IF pads = {} THEN Len(s)
                ELSE (CHOOSE i \in pads : \A j \in pads : i <= j) - 1
        kept == SelectSeq(SubSeq(s, 1, upTo), LAMBDA c : Unbase64(c) >= 0)
    IN  [i \in 1..Len(kept) |-> Unbase64(kept[i])]

RECURSIVE BytesOfSextets(_)
BytesOfSextets(x) ==
    IF Len(x) < 2 THEN << >>
    ELSE IF Len(x) = 2 THEN << (x[1] * 4) + (x[2] \div 16) >>
    ELSE IF Len(x) = 3 THEN
        << (x[1] * 4) + (x[2] \div 16), ((x[2] % 16) * 16) + (x[3] \div 4) >>
    ELSE
        << (x[1] * 4) + (x[2] \div 16),
           ((x[2] % 16) * 16) + (x[3] \div 4),
           ((x[3] % 4) * 64) + x[4] >>
        \o BytesOfSextets(SubSeq(x, 5, Len(x)))

Base64Decode(s) == BytesOfSextets(Sextets(s))

(***************************************************************************)
(* JSON values.  A string holds its characters, a number its value (the    *)
(* model's numbers are the non-negative integers), an array its elements   *)
(* in order, an object its members in insertion order.                     *)
(***************************************************************************)
JNull == [t |-> "null"]
JBool(b) == [t |-> "bool", b |-> b]
JNum(n) == [t |-> "num", n |-> n]
JStr(s) == [t |-> "str", s |-> s]
JArr(a) == [t |-> "arr", a |-> a]
JObj(m) == [t |-> "obj", m |-> m]
Member(k, v) == [k |-> k, v |-> v]

Quote == "\""
Backslash == "\\"

\* Faulty variant of EscapeChars: the characters are written as they are.
EscapeCharsUnescaped(s) == s

\* JSON.stringify of a string's characters: quote and backslash are escaped.
RECURSIVE EscapeChars(_)
EscapeChars(s) ==
    IF Len(s) = 0 THEN << >>
    ELSE (IF s[1] = Quote \/ s[1] = Backslash THEN << Backslash, s[1] >> ELSE << s[1] >>)
         \o EscapeChars(Tail(s))

QuoteString(s) == << Quote >> \o EscapeChars(s) \o << Quote >>

RECURSIVE Digits(_)
Digits(n) ==
    IF n < 10 THEN << Printable[n + 17] >>
    ELSE Digits(n \div 10) \o << Printable[(n % 10) + 17] >>

\* JSON.stringify(value), with no indentation argument: no whitespace at all.
RECURSIVE JSONstringify(_)
RECURSIVE StringifyElements(_)
RECURSIVE StringifyMembers(_)
JSONstringify(v) ==
    IF v.t = "null" THEN << "n", "u", "l", "l" >>
    ELSE IF v.t = "bool" THEN
        (IF v.b THEN << "t", "r", "u", "e" >> ELSE << "f", "a", "l", "s", "e" >>)
    ELSE IF v.t = "num" THEN Digits(v.n)
    ELSE IF v.t = "str" THEN QuoteString(v.s)
    ELSE IF v.t = "arr" THEN << "[" >> \o StringifyElements(v.a) \o << "]" >>
    ELSE << "{" >> \o StringifyMembers(v.m) \o << "}" >>

StringifyElements(a) ==
    IF Len(a) = 0 THEN << >>
    ELSE JSONstringify(a[1])
         \o (IF Len(a) = 1 THEN << >> ELSE << "," >> \o StringifyElements(Tail(a)))

StringifyMembers(m) ==
    IF Len(m) = 0 THEN << >>
    ELSE QuoteString(m[1].k) \o << ":" >> \o JSONstringify(m[1].v)
         \o (IF Len(m) = 1 THEN << >> ELSE << "," >> \o StringifyMembers(Tail(m)))

(***************************************************************************)
(* JSON.parse: a recursive-descent parser over the characters.  A parse    *)
(* step yields [ok, v, i]: whether it succeeded, the value, and the index  *)
(* of the first character it did not consume.                              *)
(***************************************************************************)
ParseFail == [ok |-> FALSE, v |-> JNull, i |-> 0]
Parsed(v, i) == [ok |-> TRUE, v |-> v, i |-> i]

IsWhitespace(c) == c \in {" ", Tab, Lf, Cr}
IsDigit(c) == c \in {"0", "1", "2", "3", "4", "5", "6", "7", "8", "9"}
DigitValue(c) == CharCode(c) - 48

RECURSIVE SkipWhitespace(_, _)
SkipWhitespace(s, i) ==
    IF i <= Len(s) /\ IsWhitespace(s[i]) THEN SkipWhitespace(s, i + 1) ELSE i

HasLiteral(s, i, lit) ==
    /\ i + Len(lit) - 1 <= Len(s)
    /\ SubSeq(s, i, i + Len(lit) - 1) = lit

\* The characters of a string, from just after its opening quote.  A control
\* character inside a string is a syntax error; of the escapes, the model's
\* strings need \" \\ and \/.
RECURSIVE ParseStringChars(_, _, _)
ParseStringChars(s, i, acc) ==
    IF i > Len(s) THEN ParseFail
    ELSE IF s[i] = Quote THEN Parsed(JStr(acc), i + 1)
    ELSE IF s[i] = Backslash THEN
        (IF i + 1 <= Len(s) /\ s[i + 1] \in {Quote, Backslash, "/"}
         THEN ParseStringChars(s, i + 2, Append(acc, s[i + 1]))
         ELSE ParseFail)
    ELSE IF s[i] \in {Tab, Lf, Cr, Ctrl} THEN ParseFail
    ELSE ParseStringChars(s, i + 1, Append(acc, s[i]))

RECURSIVE ParseDigits(_, _, _)
ParseDigits(s, i, n) ==
    IF i <= Len(s) /\ IsDigit(s[i]) THEN ParseDigits(s, i + 1, (n * 10) + DigitValue(s[i]))
    ELSE Parsed(JNum(n), i)

\* A number: "0", or a non-zero digit followed by digits (no leading zero).
\* The texts the model parses hold no sign, fraction or exponent.
ParseNumber(s, i) ==
    IF s[i] = "0" THEN Parsed(JNum(0), i + 1) ELSE ParseDigits(s, i, 0)

\* A repeated key keeps its first position and takes the last value.
RECURSIVE PutMember(_, _, _)
PutMember(m, k, v) ==
    IF Len(m) = 0 THEN << Member(k, v) >>
    ELSE IF m[1].k = k THEN << Member(k, v) >> \o Tail(m)
    ELSE << m[1] >> \o PutMember(Tail(m), k, v)

RECURSIVE ParseValue(_, _)
RECURSIVE ParseElements(_, _, _)
RECURSIVE ParseMembers(_, _, _)
ParseValue(s, i0) ==
    LET i == SkipWhitespace(s, i0) IN
    IF i > Len(s) THEN ParseFail
    ELSE IF s[i] = "{" THEN
        (LET j == SkipWhitespace(s, i + 1) IN
         IF j <= Len(s) /\ s[j] = "}" THEN Parsed(JObj(<< >>), j + 1)
         ELSE ParseMembers(s, j, << >>))
    ELSE IF s[i] = "[" THEN
        (LET j == SkipWhitespace(s, i + 1) IN
         IF j <= Len(s) /\ s[j] = "]" THEN Parsed(JArr(<< >>), j + 1)
         ELSE ParseElements(s, j, << >>))
    ELSE IF s[i] = Quote THEN ParseStringChars(s, i + 1, << >>)
    ELSE IF IsDigit(s[i]) THEN ParseNumber(s, i)
    ELSE IF HasLiteral(s, i, << "n", "u", "l", "l" >>) THEN Parsed(JNull, i + 4)
    ELSE IF HasLiteral(s, i, << "t", "r", "u", "e" >>) THEN Parsed(JBool(TRUE), i + 4)
    ELSE IF HasLiteral(s, i, << "f", "a", "l", "s", "e" >>) THEN Parsed(JBool(FALSE), i + 5)
    ELSE ParseFail

\* The elements of an array from index i, up to and including its "]".
ParseElements(s, i, acc) ==
    LET e == ParseValue(s, i) IN
    IF ~e.ok THEN ParseFail
    ELSE LET j == SkipWhitespace(s, e.i) IN
         IF j > Len(s) THEN ParseFail
         ELSE IF s[j] = "]" THEN Parsed(JArr(Append(acc, e.v)), j + 1)
         ELSE IF s[j] = "," THEN ParseElements(s, j + 1, Append(acc, e.v))
         ELSE ParseFail

\* The members of an object from index i0, up to and including its "}".
ParseMembers(s, i0, acc) ==
    LET i == SkipWhitespace(s, i0) IN
    IF i > Len(s) \/ s[i] # Quote THEN ParseFail
    ELSE LET k == ParseStringChars(s, i + 1, << >>) IN
         IF ~k.ok THEN ParseFail
         ELSE LET c == SkipWhitespace(s, k.i) IN
              IF c > Len(s) \/ s[c] # ":" THEN ParseFail
              ELSE LET e == ParseValue(s, c + 1) IN
                   IF ~e.ok THEN ParseFail
                   ELSE LET j == SkipWhitespace(s, e.i) IN
                        IF j > Len(s) THEN ParseFail
                        ELSE IF s[j] = "}"
                             THEN Parsed(JObj(PutMember(acc, k.v.s, e.v)), j + 1)
                        ELSE IF s[j] = ","
                             THEN ParseMembers(s, j + 1, PutMember(acc, k.v.s, e.v))
                        ELSE ParseFail

\* JSON.parse(text): the value, or the SyntaxError it throws.  Anything but
\* whitespace after the value is a syntax error.
JSONparse(s) ==
    LET r == ParseValue(s, 1) IN
    IF r.ok /\ SkipWhitespace(s, r.i) = Len(s) + 1
    THEN [ok |-> TRUE, v |-> r.v]
    ELSE [ok |-> FALSE, v |-> JNull]

(***************************************************************************)
(* The token codec.                                                        *)
(***************************************************************************)
Dot == "."

\* crypto.createHmac("sha256", secretKey).update(message).digest("base64").
\* SHA-256 itself is not computed: the digest is a collision-free function of
\* (secretKey, message) whose base64 rendering is a non-empty string over the
\* base64 alphabet, ending in the padding character and holding no ".".
\* Every character of the key and of the message is spelt by two base64
\* characters, after one character that spells the key's length.
CharIndex(c) ==
    IF c \in PrintableSet THEN CharCode(c) - 31
    ELSE IF c = Tab THEN 96
    ELSE IF c = Lf THEN 97
    ELSE IF c = Cr THEN 98
    ELSE IF c = Ctrl THEN 99
    ELSE 100

SpellChars(s) ==
    [i \in 1..(2 * Len(s)) |->
        IF i % 2 = 1 THEN B64[(CharIndex(s[(i + 1) \div 2]) \div 64) + 1]
        ELSE B64[(CharIndex(s[i \div 2]) % 64) + 1]]

\* Faulty variant of HmacSha256Base64: a digest of the message alone, no key.
HmacKeyless(secretKey, message) ==
    << B64[1] >> \o SpellChars(message) \o << Pad >>

HmacSha256Base64(secretKey, message) ==
    << B64[Len(secretKey) + 1] >> \o SpellChars(secretKey) \o SpellChars(message) \o << Pad >>

UserKey == << "u", "s", "e", "r" >>
DataKey == << "d", "a", "t", "a" >>

encodeToken(user, data, secretKey) ==
    LET payload == JObj(<< Member(UserKey, JStr(user)), Member(DataKey, data) >>)
        encodedPayload == Base64Encode(Utf8Bytes(JSONstringify(payload)))
        signature == HmacSha256Base64(secretKey, encodedPayload)
    IN  [token |-> encodedPayload \o << Dot >> \o signature]

\* String.prototype.split("."): the pieces between every two "."s.
DotsOf(s) == {i \in 1..Len(s) : s[i] = Dot}

FirstDot(s) == CHOOSE i \in DotsOf(s) : \A j \in DotsOf(s) : i <= j

RECURSIVE Split(_)
Split(s) ==
    IF DotsOf(s) = {} THEN << s >>
    ELSE << SubSeq(s, 1, FirstDot(s) - 1) >> \o Split(SubSeq(s, FirstDot(s) + 1, Len(s)))

Return(payload) == [kind |-> "return", payload |-> payload]
Throw(name, message) == [kind |-> "throw", name |-> name, message |-> message]

\* What JSON.parse throws; its message is the parser's, not one of this file.
SyntaxError == Throw("SyntaxError", "(the JSON parser's message)")

\* The two errors decodeToken itself throws.
InvalidTokenFormat == Throw("Error", "Invalid token format")
InvalidToken == Throw("Error", "Invalid token")

\* Faulty variant of decodeToken: only the first piece is tested for
\* emptiness, and a missing signature is compared like any other.
decodeTokenPayloadOnly(tok, secretKey) ==
    LET parts == Split(tok)
        encodedPayload == parts[1]
        signature == IF Len(parts) < 2 THEN << >> ELSE parts[2]
    IN  IF encodedPayload = << >>
        THEN InvalidTokenFormat
        ELSE IF signature # HmacSha256Base64(secretKey, encodedPayload)
        THEN InvalidToken
        ELSE LET parsed == JSONparse(Utf8String(Base64Decode(encodedPayload))) IN
             IF parsed.ok THEN Return(parsed.v) ELSE SyntaxError

decodeToken(tok, secretKey) ==
    LET parts == Split(tok)
        \* const [ encodedPayload, signature ] = token.split("."): the first two
        \* pieces; signature is undefined when there is one piece only.
        encodedPayload == parts[1]
        noSignature == Len(parts) < 2 \/ parts[2] = << >>
    IN  IF encodedPayload = << >> \/ noSignature
        THEN InvalidTokenFormat
        ELSE IF parts[2] # HmacSha256Base64(secretKey, encodedPayload)
        THEN InvalidToken
        ELSE LET parsed == JSONparse(Utf8String(Base64Decode(encodedPayload))) IN
             IF parsed.ok THEN Return(parsed.v) ELSE SyntaxError

(***************************************************************************)
(* The codec's callers: the values they encode, the keys they hold, and    *)
(* the token strings they hand to decodeToken.                             *)
(***************************************************************************)
NumKeys == 2

\* "k1", "k2", ...
SecretKeys == {<< "k", Printable[i + 17] >> : i \in 1..NumKeys}

\* "u1", and a subject holding a quote and a backslash
Users == { << "u", "1" >>, << "a", Quote, Backslash >> }

\* 7, null, "x.y", [1,"a",true], {"role":"admin"}
DataValues ==
    { JNum(7), JNull, JStr(<< "x", ".", "y" >>),
      JArr(<< JNum(1), JStr(<< "a" >>), JBool(TRUE) >>),
      JObj(<< Member(<< "r", "o", "l", "e" >>, JStr(<< "a", "d", "m", "i", "n" >>)) >>) }

\* The characters a tampered token gets in place of one of its own.
TamperChars == { Dot, "A", "B" }

\* What is appended to a token.
Suffixes == { << Dot, "x" >>, << "x" >>, << Dot >> }

\* Token strings that no encodeToken call made: with no ".", with an empty
\* side, with several "."s.  (The empty string is the initial token.)
RawTokens ==
    { << "a", "b", "c" >>, << "a", Dot >>, << Dot, "a" >>, << Dot >>,
      << "a", Dot, Dot, "b" >>, << Dot, "a", Dot, "b" >> }

\* First segments that a holder of the key signs without encodeToken:
\*   abcd                  bytes that are not UTF-8
\*   base64("not json")
\*   base64({"user":"u1")  JSON cut short
\*   MQ==                  base64("1"): JSON, but no object
\*   base64({"user":"u1","data":1,"context":{}})
ForgedSegments ==
    { << "a", "b", "c", "d" >>,
      << "b", "m", "9", "0", "I", "G", "p", "z", "b", "2", "4", "=" >>,
      << "e", "y", "J", "1", "c", "2", "V", "y", "I", "j", "o", "i", "d", "T", "E", "i" >>,
      << "M", "Q", Pad, Pad >>,
      << "e", "y", "J", "1", "c", "2", "V", "y", "I", "j", "o", "i", "d", "T", "E", "i", "L", "C", "J", "k", "Y", "X", "R", "h", "I", "j", "o", "x", "L", "C", "J", "j", "b", "2", "5", "0", "Z", "X", "h", "0", "I", "j", "p", "7", "f", "X", "0", "=" >> }

NoMint == [made |-> FALSE]
NotDecoded == [called |-> FALSE]

\* The caller holds no token: the state every token starts from.
NoToken == token = << >> /\ ~minted.made /\ edit.op = "none"

\* A caller mints a token.
Encode(user, data, secretKey) ==
    /\ UNCHANGED storeVars
    /\ NoToken
    /\ token' = encodeToken(user, data, secretKey).token
    /\ minted' = [made |-> TRUE, user |-> user, data |-> data, secretKey |-> secretKey]
    /\ edit' = [op |-> "none"]
    /\ decoded' = NotDecoded

\* The holder of a minted token replaces one of its characters by another.
ReplaceChar(i, c) ==
    /\ UNCHANGED storeVars
    /\ minted.made /\ edit.op = "none"
    /\ i \in 1..Len(token) /\ c # token[i]
    /\ token' = [token EXCEPT ![i] = c]
    /\ edit' = [op |-> "replace", pos |-> i, ch |-> c]
    /\ decoded' = NotDecoded
    /\ UNCHANGED minted

\* The holder of a minted token appends characters to it.
AppendSuffix(sfx) ==
    /\ UNCHANGED storeVars
    /\ minted.made /\ edit.op = "none"
    /\ token' = token \o sfx
    /\ edit' = [op |-> "append", suffix |-> sfx]
    /\ decoded' = NotDecoded
    /\ UNCHANGED minted

\* The holder of a minted token keeps only its first n characters.
Truncate(n) ==
    /\ UNCHANGED storeVars
    /\ minted.made /\ edit.op = "none"
    /\ n \in 0..(Len(token) - 1)
    /\ token' = SubSeq(token, 1, n)
    /\ edit' = [op |-> "truncate", len |-> n]
    /\ decoded' = NotDecoded
    /\ UNCHANGED minted

\* A holder of the key signs a first segment of their own making.
Forge(segment, secretKey) ==
    /\ UNCHANGED storeVars
    /\ NoToken
    /\ token' = segment \o << Dot >> \o HmacSha256Base64(secretKey, segment)
    /\ minted' = NoMint
    /\ edit' = [op |-> "forge", secretKey |-> secretKey]
    /\ decoded' = NotDecoded

\* A caller presents a string that is no token at all.
Present(raw) ==
    /\ UNCHANGED storeVars
    /\ NoToken
    /\ token' = raw
    /\ minted' = NoMint
    /\ edit' = [op |-> "present"]
    /\ decoded' = NotDecoded

\* decodeToken(token, secretKey) is called on the token held.
Decode(secretKey) ==
    /\ UNCHANGED storeVars
    /\ decoded' = [called |-> TRUE, token |-> token, secretKey |-> secretKey,
                   outcome |-> decodeToken(token, secretKey)]
    /\ UNCHANGED <<token, minted, edit>>

\* The caller drops the token it holds.
Discard ==
    /\ UNCHANGED storeVars
    /\ ~NoToken
    /\ token' = << >>
    /\ minted' = NoMint
    /\ edit' = [op |-> "none"]
    /\ decoded' = NotDecoded

(***************************************************************************)
(* The record store: the "user"/"info" collection behind                   *)
(* DatabaseHelper.getCollection, and the two accessors.  A document is a   *)
(* function from its field names to their values.                          *)
(***************************************************************************)
NumIds == 2

IdNames == << "u1", "U1", "u2", "u3" >>

UserIds == {IdNames[i] : i \in 1..NumIds}
Emails == {"e1", "e2"}

\* UserFormat: what updateUser is given.
UserFormats == [id : UserIds, email : Emails, firstname : {"f1"}, lastname : {"l1"}]

Callers == {"c1", "c2"}

\* A document another writer of the collection stored: it holds a field
\* this file never sets.
SeedDoc ==
    ("_id" :> 0) @@ ("id" :> "u1") @@ ("email" :> "e0") @@ ("firstname" :> "f0")
    @@ ("lastname" :> "l0") @@ ("role" :> "admin")

\* The collection before the first call: empty, or holding that document.
Seeds == { << >>, << SeedDoc >> }

Null == [null |-> TRUE]
Undefined == [undefined |-> TRUE]

Fulfilled(value) == [state |-> "fulfilled", value |-> value]
Rejected(reason) == [state |-> "rejected", reason |-> reason]

\* The errors a store that cannot be reached fails with.
DbErrors == {"MongoNetworkError"}

Matches(coll, userId) == {i \in 1..Len(coll) : "id" \in DOMAIN coll[i] /\ coll[i]["id"] = userId}

FirstMatch(coll, userId) ==
    CHOOSE i \in Matches(coll, userId) : \A j \in Matches(coll, userId) : i <= j

\* Faulty variant of findOne: the filter is dropped.
findOneUnfiltered(coll, userId) ==
    IF coll = << >> THEN Null ELSE coll[1]

\* collection.findOne({ id: userId }): the first document whose id equals
\* userId, or null.
findOne(coll, userId) ==
    IF Matches(coll, userId) = {} THEN Null ELSE coll[FirstMatch(coll, userId)]

\* Faulty variant of ApplySet: the document is replaced by the fields.
ApplyReplace(doc, fields) == fields

\* $set: the fields named are written, every other field of the document stays.
ApplySet(doc, fields) ==
    [f \in (DOMAIN doc) \cup (DOMAIN fields) |-> IF f \in DOMAIN fields THEN fields[f] ELSE doc[f]]

\* Faulty variant of updateOne: no upsert, so nothing is inserted.
updateOneNoUpsert(coll, userId, fields, oid) ==
    IF Matches(coll, userId) = {}
    THEN coll
    ELSE [coll EXCEPT ![FirstMatch(coll, userId)] = ApplySet(@, fields)]

\* collection.updateOne({ id: userId }, { $set: fields }, { upsert: true }):
\* the first matching document is updated in place; with no match a document
\* made of the filter's equality, the fields set and a fresh _id is inserted.
updateOne(coll, userId, fields, oid) ==
    IF Matches(coll, userId) = {}
    THEN Append(coll, ApplySet(("_id" :> oid) @@ ("id" :> userId), fields))
    ELSE [coll EXCEPT ![FirstMatch(coll, userId)] = ApplySet(@, fields)]

\* The $set document updateUser builds from userData.
updateFilter(userData) ==
    ("id" :> userData.id) @@ ("email" :> userData.email)
    @@ ("firstname" :> userData.firstname) @@ ("lastname" :> userData.lastname)

\* getUser after findOne: the user, or the rejection "UserNotFound".  The
\* rejected promise is returned, not awaited, so the catch clause of getUser
\* does not see it.
getUserReturn(user) ==
    IF user # Null THEN Fulfilled(user) ELSE Rejected("UserNotFound")

\* The catch clauses: whatever findOne or updateOne threw becomes "InternalError".
catchError(error) == Rejected("InternalError")

\* await DatabaseHelper.getCollection(...) stands before the try block: its
\* rejection is the rejection of getUser / updateUser.
getCollectionRejection(error) == Rejected(error)

Idle == [pc |-> "idle"]
NoData == [set |-> FALSE]
NothingSettled == [any |-> FALSE]

Settled(c, fault, result, asOf, after) ==
    [any |-> TRUE, op |-> calls[c].op, arg |-> calls[c].arg,
     fault |-> fault, result |-> result, asOf |-> asOf,
     before |-> collection, after |-> after]

\* The store's callers start with no call in flight; the codec is not used.
InitStore ==
    /\ token = << >>
    /\ minted = NoMint
    /\ edit = [op |-> "none"]
    /\ decoded = NotDecoded
    /\ seed \in Seeds
    /\ collection = seed
    /\ nextOid = 1
    /\ calls = [c \in Callers |-> Idle]
    /\ lastSet = [u \in UserIds |-> NoData]
    /\ settled = NothingSettled

\* getUser(userId) is called: it awaits the collection handle.
CallGetUser(c, userId) ==
    /\ calls[c].pc = "idle"
    /\ calls' = [calls EXCEPT ![c] = [op |-> "getUser", arg |-> userId, pc |-> "getCollection"]]
    /\ UNCHANGED <<collection, nextOid, seed, lastSet, settled>>
    /\ UNCHANGED codecVars

\* updateUser(userData) is called: it awaits the collection handle.
CallUpdateUser(c, userData) ==
    /\ calls[c].pc = "idle"
    /\ calls' = [calls EXCEPT ![c] = [op |-> "updateUser", arg |-> userData, pc |-> "getCollection"]]
    /\ UNCHANGED <<collection, nextOid, seed, lastSet, settled>>
    /\ UNCHANGED codecVars

\* DatabaseHelper.getCollection resolves: the call enters its try block and
\* awaits findOne or updateOne.
GetCollectionResolves(c) ==
    /\ calls[c].pc = "getCollection"
    /\ calls' = [calls EXCEPT ![c].pc = IF calls[c].op = "getUser" THEN "findOne" ELSE "updateOne"]
    /\ UNCHANGED <<collection, nextOid, seed, lastSet, settled>>
    /\ UNCHANGED codecVars

\* DatabaseHelper.getCollection rejects: the store cannot be reached.
GetCollectionRejects(c, error) ==
    /\ calls[c].pc = "getCollection"
    /\ settled' = Settled(c, "getCollection", getCollectionRejection(error), NoData, collection)
    /\ calls' = [calls EXCEPT ![c] = Idle]
    /\ UNCHANGED <<collection, nextOid, seed, lastSet>>
    /\ UNCHANGED codecVars

\* findOne resolves, and getUser settles.
FindOneResolves(c) ==
    /\ calls[c].pc = "findOne"
    /\ settled' = Settled(c, "none", getUserReturn(findOne(collection, calls[c].arg)),
                          lastSet[calls[c].arg], collection)
    /\ calls' = [calls EXCEPT ![c] = Idle]
    /\ UNCHANGED <<collection, nextOid, seed, lastSet>>
    /\ UNCHANGED codecVars

\* findOne throws: the catch clause of getUser runs.
FindOneThrows(c, error) ==
    /\ calls[c].pc = "findOne"
    /\ settled' = Settled(c, "findOne", catchError(error), lastSet[calls[c].arg], collection)
    /\ calls' = [calls EXCEPT ![c] = Idle]
    /\ UNCHANGED <<collection, nextOid, seed, lastSet>>
    /\ UNCHANGED codecVars

\* updateOne resolves, and updateUser settles with Promise.resolve().
UpdateOneResolves(c) ==
    LET userData == calls[c].arg
        after == updateOne(collection, userData.id, updateFilter(userData), nextOid)
    IN  /\ calls[c].pc = "updateOne"
        /\ collection' = after
        /\ nextOid' = IF Len(after) > Len(collection) THEN nextOid + 1 ELSE nextOid
        /\ lastSet' = [lastSet EXCEPT ![userData.id] = userData]
        /\ settled' = Settled(c, "none", Fulfilled(Undefined), NoData, after)
        /\ calls' = [calls EXCEPT ![c] = Idle]
        /\ UNCHANGED seed
        /\ UNCHANGED codecVars

\* updateOne throws before it wrote: the catch clause of updateUser runs.
UpdateOneThrows(c, error) ==
    /\ calls[c].pc = "updateOne"
    /\ settled' = Settled(c, "updateOne", catchError(error), NoData, collection)
    /\ calls' = [calls EXCEPT ![c] = Idle]
    /\ UNCHANGED <<collection, nextOid, seed, lastSet>>
    /\ UNCHANGED codecVars

(***************************************************************************)
(* The two specifications: the codec's callers, and the store's callers.   *)
(***************************************************************************)
\* The codec's callers start with no token; the store is empty and stays
\* untouched while the codec is exercised.
InitCodec ==
    /\ token = << >>
    /\ minted = NoMint
    /\ edit = [op |-> "none"]
    /\ decoded = NotDecoded
    /\ seed = << >>
    /\ collection = << >>
    /\ nextOid = 1
    /\ calls = [c \in Callers |-> Idle]
    /\ lastSet = [u \in UserIds |-> NoData]
    /\ settled = NothingSettled

NextCodec ==
    \/ \E user \in Users, data \in DataValues, secretKey \in SecretKeys :
          Encode(user, data, secretKey)
    \/ \E i \in 1..Len(token), c \in TamperChars : ReplaceChar(i, c)
    \/ \E sfx \in Suffixes : AppendSuffix(sfx)
    \/ \E n \in 0..Len(token) : Truncate(n)
    \/ \E segment \in ForgedSegments, secretKey \in SecretKeys : Forge(segment, secretKey)
    \/ \E raw \in RawTokens : Present(raw)
    \/ \E secretKey \in SecretKeys : Decode(secretKey)
    \/ Discard

SpecCodec == InitCodec /\ [][NextCodec]_vars

NextStore ==
    \/ \E c \in Callers, userId \in UserIds : CallGetUser(c, userId)
    \/ \E c \in Callers, userData \in UserFormats : CallUpdateUser(c, userData)
    \/ \E c \in Callers : GetCollectionResolves(c)
    \/ \E c \in Callers, error \in DbErrors : GetCollectionRejects(c, error)
    \/ \E c \in Callers : FindOneResolves(c)
    \/ \E c \in Callers, error \in DbErrors : FindOneThrows(c, error)
    \/ \E c \in Callers : UpdateOneResolves(c)
    \/ \E c \in Callers, error \in DbErrors : UpdateOneThrows(c, error)

SpecStore == InitStore /\ [][NextStore]_vars

(***************************************************************************)
(* The failure kinds of the specification, as this file signals them.      *)
(***************************************************************************)
MalformedToken == InvalidTokenFormat
InvalidSignature == InvalidToken
NotFound == Rejected("UserNotFound")
StorageError == Rejected("InternalError")

(***************************************************************************)
(* Properties of the token codec, checked under SpecCodec.                 *)
(***************************************************************************)
\* The token was minted by encodeToken and is decoded as minted.
DecodedAsMinted == decoded.called /\ minted.made /\ edit.op = "none"

\* Where the first "." of the minted token stands: its signature segment is
\* everything after it.
MintedDot == Len(Base64Encode(Utf8Bytes(JSONstringify(
                 JObj(<< Member(UserKey, JStr(minted.user)),
                         Member(DataKey, minted.data) >>))))) + 1

\* C1: round trip.  Decoding a token encodeToken made, with the key it was
\* made with, succeeds and returns the payload { user, data } that was
\* encoded: the same subject, the same data, and nothing else.
C1_RoundTrip ==
    (DecodedAsMinted /\ decoded.secretKey = minted.secretKey)
        => decoded.outcome = Return(JObj(<< Member(UserKey, JStr(minted.user)),
                                            Member(DataKey, minted.data) >>))

\* A round trip of a subject that needs escaping and of a nested data value.
C1_Witness ==
    /\ DecodedAsMinted /\ decoded.secretKey = minted.secretKey
    /\ decoded.outcome.kind = "return"
    /\ minted.user = << "a", Quote, Backslash >>
    /\ minted.data.t = "obj"

\* t is exactly <encodedPayload>.<signature>, split at its first ".", the
\* signature being the HMAC of encodedPayload under secretKey.
ExactlySigned(t, secretKey) ==
    \E d \in 1..Len(t) :
        /\ t[d] = Dot
        /\ \A j \in 1..(d - 1) : t[j] # Dot
        /\ SubSeq(t, d + 1, Len(t)) = HmacSha256Base64(secretKey, SubSeq(t, 1, d - 1))

\* C2: decodeToken accepts a token only if the token is exactly
\* <encodedPayload>.<signature>, split at the first ".", with signature the
\* HMAC of encodedPayload under the same key; a valid token that was altered,
\* be it by appending ".x" after its signature, is never accepted.
C2_AcceptedOnlyIfExactlySigned ==
    (decoded.called /\ decoded.outcome.kind = "return")
        => ExactlySigned(decoded.token, decoded.secretKey)

\* C3: tamper detection.  Replacing any one character of the signature segment
\* of a token encodeToken made by any other character, "." included, makes
\* decodeToken with the same key fail with InvalidSignature, and with no
\* other kind of error.
C3_SignatureTamperIsInvalidSignature ==
    (/\ decoded.called /\ minted.made
     /\ edit.op = "replace" /\ edit.pos > MintedDot
     /\ decoded.secretKey = minted.secretKey)
        => decoded.outcome = InvalidSignature

\* C4: wrong key.  Decoding a token encodeToken made with a key other than
\* the one it was made with fails with InvalidSignature and returns no payload
\* (the HMAC being collision-free).
C4_WrongKey ==
    (DecodedAsMinted /\ decoded.secretKey # minted.secretKey)
        => decoded.outcome = InvalidSignature

\* A minted token was decoded with another key.
C4_Witness ==
    /\ DecodedAsMinted /\ decoded.secretKey # minted.secretKey
    /\ decoded.outcome.kind = "throw"

\* t has no ".", or nothing before its first ".", or nothing after it.
LacksSegment(t) ==
    \/ \A i \in 1..Len(t) : t[i] # Dot
    \/ t[1] = Dot
    \/ (t[Len(t)] = Dot /\ \A i \in 1..(Len(t) - 1) : t[i] # Dot)

\* C5: malformed input.  Whatever the key, decodeToken fails with
\* MalformedToken when the token has no ".", or the part before its first "."
\* is empty, or the part after its first "." is empty: never InvalidSignature,
\* never a payload.
C5_MalformedInput ==
    (decoded.called /\ LacksSegment(decoded.token)) => decoded.outcome = MalformedToken

\* A minted token cut right after its "." (payload present, signature empty)
\* was decoded.
C5_Witness ==
    /\ decoded.called /\ minted.made
    /\ edit.op = "truncate" /\ edit.len = MintedDot
    /\ LacksSegment(decoded.token)
    /\ decoded.outcome.kind = "throw"

\* C6: a token whose signature is the correct HMAC of its first segment, but
\* whose first segment does not base64-decode to valid JSON, fails with
\* MalformedToken: the failure kind of a token that lacks a segment.
C6_UnparsablePayloadIsMalformedToken ==
    (/\ decoded.called /\ edit.op = "forge"
     /\ decoded.secretKey = edit.secretKey
     /\ ~JSONparse(Utf8String(Base64Decode(Split(decoded.token)[1]))).ok)
        => decoded.outcome = MalformedToken

(***************************************************************************)
(* Properties of the record store, checked under SpecStore.                *)
(***************************************************************************)
OwnFields == {"id", "email", "firstname", "lastname"}

\* A call settled that met no fault.
SettledClean(op) == settled.any /\ settled.op = op /\ settled.fault = "none"

C8_FaultsAreStorageError ==
    settled.any =>
        /\ settled.fault # "none" => settled.result = StorageError
        /\ (settled.op = "getUser" /\ settled.fault = "none"
            /\ findOne(settled.before, settled.arg) = Null) => settled.result = NotFound

\* C9 as claimed: after a successful updateUser the document of that id holds
\* exactly id, email, firstname and lastname as passed in (and its _id), no
\* field of the previous document being kept, and every other document is
\* unchanged.
C9_FullReplacement ==
    SettledClean("updateUser") =>
        LET doc == findOne(settled.after, settled.arg.id) IN
        /\ doc # Null
        /\ DOMAIN doc = OwnFields \cup {"_id"}
        /\ \A f \in OwnFields : doc[f] = settled.arg[f]
        /\ \A i \in 1..Len(settled.before) :
               settled.before[i]["id"] # settled.arg.id => settled.after[i] = settled.before[i]

\* C9, amended: a successful updateUser sets id, email, firstname and lastname
\* of the first document of that id to the values passed in and keeps every
\* other field of that document as it was; when no document has that id it
\* inserts one holding those four fields and a fresh _id; every other
\* document is unchanged, and no document is removed.
C9_SetMerge ==
    SettledClean("updateUser") =>
        LET before == settled.before
            after == settled.after
            hits == {i \in 1..Len(before) : before[i]["id"] = settled.arg.id}
        IN  IF hits = {}
            THEN /\ Len(after) = Len(before) + 1
                 /\ SubSeq(after, 1, Len(before)) = before
                 /\ DOMAIN after[Len(after)] = OwnFields \cup {"_id"}
                 /\ \A f \in OwnFields : after[Len(after)][f] = settled.arg[f]
            ELSE /\ Len(after) = Len(before)
                 /\ \E i \in hits :
                      /\ \A j \in hits : i <= j
                      /\ \A j \in 1..Len(before) : j # i => after[j] = before[j]
                      /\ DOMAIN after[i] = (DOMAIN before[i]) \cup OwnFields
                      /\ \A f \in OwnFields : after[i][f] = settled.arg[f]
                      /\ \A f \in (DOMAIN before[i]) \ OwnFields : after[i][f] = before[i][f]

\* An updateUser updated the document another writer stored, next to a
\* document of another id.
C9_Witness ==
    /\ SettledClean("updateUser")
    /\ settled.arg.id = "u1"
    /\ Len(settled.before) = 2
    /\ "role" \in DOMAIN findOne(settled.before, "u1")
    /\ findOne(settled.before, "u1")["email"] # settled.arg.email

\* The ids the collection held before the first call.
SeededIds == {seed[i]["id"] : i \in 1..Len(seed)}

\* C10: fetch miss.  In a store whose records were all made by updateUser
\* calls, a getUser of an id that no updateUser was ever given fails with
\* NotFound: the lookup is by exact id, so the records of other ids never make
\* it succeed.
C10_FetchMiss ==
    (/\ SettledClean("getUser")
     /\ settled.asOf = NoData
     /\ settled.arg \notin SeededIds)
        => settled.result = NotFound

\* A getUser missed in a collection that holds the record of another id.
C10_Witness ==
    /\ SettledClean("getUser")
    /\ settled.asOf = NoData
    /\ seed = << >>
    /\ Len(settled.before) > 0
    /\ settled.result.state = "rejected"

=============================================================================
